---- MODULE Spec2Model ----
(***************************************************************************)
(* Monte Carlo null distribution of Spearman's rho (compute_rho_null.cpp). *)
(*                                                                         *)
(* Two entry points are modelled, each as a call that is validated, runs   *)
(* its simulation loop one iteration at a time and returns:                *)
(*   get_null_rho(cells, iters, seeds)                                     *)
(*   get_null_rho_design(qr, qraux, iters, seeds)                          *)
(*                                                                         *)
(* Doubles are modelled as exact rationals [num, den] (den > 0) or the     *)
(* value NaN; std::mt19937 is modelled as an arbitrary but fixed function  *)
(* of (seed, number of draws already taken), recorded in `stream` the      *)
(* first time a value is drawn and replayed ever after.                    *)
(***************************************************************************)
EXTENDS Integers, Sequences, FiniteSets, TLC

\* ------------------------------------------------------------------ bounds
MaxN     == 4      \* largest number of cells offered to get_null_rho
MaxNobs  == 2      \* largest number of observations of a factorization
MaxIters == 2      \* largest iteration count / seed count offered

Seeds    == {11, 12}     \* seed values offered
DrawVals == {0, 1}       \* values a normal deviate is drawn from

VARIABLES
    fn,          \* the entry point under call
    cells,       \* SEXP cells
    qr,          \* SEXP qr, qraux: the factorization
    iters,       \* SEXP iters
    seeds,       \* SEXP seeds
    pc,          \* "idle" | "validate" | "loop" | "done" | "error"
    err,         \* message of the std::runtime_error thrown, or ""
    it,          \* loop counter of the simulation loop
    mode,        \* design loop: 0, 1 = next realization; 2 = both done
    output,      \* Rcpp::NumericVector output
    mult,        \* const double mult
    rankings,    \* std::vector<int> rankings
    generator,   \* std::mt19937 generator (and cpp_rnorm): [seed, pos]
    stream,      \* what a generator seeded with s yields at position k
    multQ,       \* run_dormqr multQ: [built, nobs, ncoef, rhs]
    collected1, collected2,   \* std::deque<std::pair<double,int> >
    rank1, rank2,             \* std::deque<int>
    ret,         \* what the caller receives: [ok, value]
    prev,        \* the previous finished call: [iters, seeds, ret]
    ncalls       \* number of calls started so far

vars == <<fn, cells, qr, iters, seeds, pc, err, it, mode, output, mult,
          rankings, generator, stream, multQ, collected1, collected2,
          rank1, rank2, ret, prev, ncalls>>

\* --------------------------------------------------------------- doubles
Frac(n, d) == [num |-> n, den |-> d]

\* not-a-number: the only value with denominator 0
NaN == Frac(0, 0)

\* a / b for integers a and b.  6/0 is an infinity; the only product the
\* code forms with it is 0 * inf (no rank differs when Nobs <= 1), which
\* is NaN, so the infinity is represented by NaN already.
Div(a, b) == IF b = 0 THEN NaN
             ELSE IF b < 0 THEN Frac(-a, -b) ELSE Frac(a, b)

\* tmp * mult for an integer-valued double tmp
Times(t, m) == IF m = NaN THEN NaN ELSE Frac(t * m.num, m.den)

\* 1 - x
OneMinus(x) == IF x = NaN THEN NaN ELSE Frac(x.den - x.num, x.den)

IsOne(x)      == x # NaN /\ x.num = x.den
IsMinusOne(x) == x # NaN /\ x.num = -x.den
InUnit(x)     == x # NaN /\ -x.den <= x.num /\ x.num <= x.den
EqFrac(x, y)  == x # NaN /\ y # NaN /\ x.num * y.den = y.num * x.den

Zero == Frac(0, 1)

\* ------------------------------------------------------------- rho_mult
\* the grouping slip 6/(N*N*(N-1))
rho_mult_wrong(Ncells) == Div(6, Ncells * Ncells * (Ncells - 1))

rho_mult(Ncells) == Div(6, Ncells * (Ncells * Ncells - 1))

\* ------------------------------------------------------------- helpers
SeqsUpTo(S, n) == UNION {[1..k -> S] : k \in 0..n}

\* position permutations of n items, as sequences over 1..n
Perms(n) == {p \in [1..n -> 1..n] : \A i, j \in 1..n : p[i] = p[j] => i = j}

Zeros(n) == [i \in 1..n |-> 0]

RECURSIVE SumSq(_, _)
SumSq(d, n) == IF n = 0 THEN 0 ELSE SumSq(d, n - 1) + d[n] * d[n]

\* std::iota(rankings.begin(), rankings.end(), 0)

iota(v) == [i \in 1..Len(v) |-> i - 1]

\* (slip: one generator per call, constructed before the loop)
mt19937_reused(old, seed) == IF old.seed = 0 THEN [seed |-> seed, pos |-> 0] ELSE old

\* (slip: a static generator, constructed once and never again)
mt19937_static(old, seed) ==
    IF stream = <<>> THEN [seed |-> seed, pos |-> 0]
    ELSE [seed |-> (CHOOSE k \in DOMAIN stream : TRUE)[1],
          pos |-> Cardinality(DOMAIN stream)]

\* std::mt19937 generator(Seeds[it]): a generator at the start of its stream
mt19937(old, seed) == [seed |-> seed, pos |-> 0]

NoGenerator == [seed |-> 0, pos |-> 0]

\* the values a generator in state g may yield next: the one it yielded
\* before from this state, or any value if the state is new
Yields(g, S) == IF <<g.seed, g.pos>> \in DOMAIN stream
                THEN {stream[<<g.seed, g.pos>>]} ELSE S

Record(g, x) == IF <<g.seed, g.pos>> \in DOMAIN stream
                THEN stream ELSE stream @@ (<<g.seed, g.pos>> :> x)

Advance(g) == [g EXCEPT !.pos = @ + 1]

\* std::shuffle(rankings.begin(), rankings.end(), generator): the swaps
\* depend on the generator alone, so the effect is a position permutation
shuffle(v, sigma) == [i \in 1..Len(v) |-> v[sigma[i]]]

\* (slip: tmp*=mult left out)
null_rho_unscaled(r, m) == OneMinus(Frac(SumSq([c \in 1..Len(r) |-> r[c] - (c - 1)], Len(r)), 1))

\* lines 37-43: rho of the shuffled ranking against 0..Ncells-1
null_rho(r, m) == OneMinus(Times(SumSq([c \in 1..Len(r) |-> r[c] - (c - 1)], Len(r)), m))

\* ------------------------------------------------- run_dormqr (LAPACK)
\* The factorization holds ncoef elementary reflectors H_i = I - tau v v';
\* reflector i leaves coordinates below i alone.  The reflectors offered
\* are the ones with integer entries: the identity (tau = 0), the sign
\* flip of coordinate i (v = e_i, tau = 2), the exchange of coordinates i
\* and j > i (v = e_i - e_j, tau = 1) and the negated exchange
\* (v = e_i + e_j, tau = 1).
Reflectors(i, n) ==
    {[kind |-> "id", j |-> i], [kind |-> "flip", j |-> i]}
      \cup {[kind |-> k, j |-> j] : k \in {"swap", "negswap"}, j \in (i + 1)..n}

Reflect(h, i, x) ==
    CASE h.kind = "id"      -> x
      [] h.kind = "flip"    -> [x EXCEPT ![i] = -x[i]]
      [] h.kind = "swap"    -> [x EXCEPT ![i] = x[h.j], ![h.j] = x[i]]
      [] h.kind = "negswap" -> [x EXCEPT ![i] = -x[h.j], ![h.j] = -x[i]]

\* Q x = H_1 (H_2 ( ... (H_k x))), reflectors from..k
RECURSIVE ApplyFrom(_, _, _)
ApplyFrom(refl, from, x) ==
    IF from > Len(refl) THEN x
    ELSE Reflect(refl[from], from, ApplyFrom(refl, from + 1, x))

Factorizations ==
    UNION {UNION {{[nobs |-> n, ncoef |-> k, refl |-> r] :
                     r \in {q \in [1..k -> UNION {Reflectors(i, n) : i \in 1..k}] :
                              \A i \in 1..k : q[i] \in Reflectors(i, n)}} :
                  k \in 0..n} : n \in 0..MaxNobs}

\* run_dormqr multQ(qr, qraux, 'N')
run_dormqr(f) == [built |-> TRUE, nobs |-> f.nobs, ncoef |-> f.ncoef,
                  rhs |-> Zeros(f.nobs)]

\* multQ.run(): rhs <- Q rhs
run(f, rhs) == ApplyFrom(f.refl, 1, rhs)

\* ------------------------------------------- get_null_rho_design helpers
\* lines 82-85: the first Ncoef entries are zeroed, the others drawn
fill(rhs, Ncoef, Nobs, d) ==
    [col \in 1..Len(rhs) |-> IF col <= Ncoef THEN 0
                             ELSE IF col <= Nobs THEN d[col - Ncoef]
                             ELSE rhs[col]]

Pair(v, i) == [first |-> v, second |-> i]

\* (slip: equal values ordered by descending index)
PairLess_desc(a, b) ==
    a.first < b.first \/ (a.first = b.first /\ a.second > b.second)

\* operator< of std::pair<double, int>
PairLess(a, b) ==
    a.first < b.first \/ (a.first = b.first /\ a.second < b.second)

\* lines 92-95
collect(rhs, Nobs) == [row \in 1..Nobs |-> Pair(rhs[row], row - 1)]

\* line 96: std::sort(current.begin(), current.end()); on a range this
\* short std::sort is an insertion sort under operator<
RECURSIVE insert(_, _)
insert(p, s) ==
    IF s = <<>> THEN <<p>>
    ELSE IF PairLess(p, s[1]) THEN <<p>> \o s
    ELSE <<s[1]>> \o insert(p, Tail(s))

RECURSIVE sort(_)
sort(c) == IF c = <<>> THEN <<>>
           ELSE insert(c[Len(c)], sort(SubSeq(c, 1, Len(c) - 1)))

\* (slip: the loop starts at row 1)
rank_partial(rank, current) ==
    [i \in 1..Len(rank) |->
        IF \E row \in 2..Len(current) : current[row].second = i - 1
        THEN (CHOOSE row \in 2..Len(current) : current[row].second = i - 1) - 1
        ELSE rank[i]]

\* lines 98-100: rank[current[row].second] = row, for every row
rank_of(rank, current) ==
    [i \in 1..Len(rank) |->
        IF \E row \in 1..Len(current) : current[row].second = i - 1
        THEN (CHOOSE row \in 1..Len(current) : current[row].second = i - 1) - 1
        ELSE rank[i]]

\* (slip: the ranks are added, not subtracted)
design_rho_sum(r1, r2, m) ==
    OneMinus(Times(SumSq([row \in 1..Len(r1) |-> r1[row] + r2[row]], Len(r1)), m))

\* lines 104-110
design_rho(r1, r2, m) ==
    OneMinus(Times(SumSq([row \in 1..Len(r1) |-> r1[row] - r2[row]], Len(r1)), m))

\* m successive deviates of a generator in state g
RECURSIVE YieldsSeq(_, _, _)
YieldsSeq(g, m, S) ==
    IF m = 0 THEN {<<>>}
    ELSE {Append(d, x) : d \in YieldsSeq(g, m - 1, S),
                         x \in Yields([g EXCEPT !.pos = @ + m - 1], S)}

RECURSIVE RecordSeq(_, _, _)
RecordSeq(g, d, m) ==
    IF m = 0 THEN stream
    ELSE LET key == <<g.seed, g.pos + m - 1>>
             rest == RecordSeq(g, d, m - 1)
         IN IF key \in DOMAIN rest THEN rest ELSE rest @@ (key :> d[m])

\* ------------------------------------------------------------------ Init
NoRet == [ok |-> FALSE, value |-> <<>>]
NoPrev == [iters |-> -2, seeds |-> <<>>, ret |-> NoRet]
NoQR == [nobs |-> 0, ncoef |-> 0, refl |-> <<>>]
NoMultQ == [built |-> FALSE, nobs |-> 0, ncoef |-> 0, rhs |-> <<>>]

Locals0 ==
    /\ pc = "idle" /\ err = "" /\ it = 0 /\ mode = 0
    /\ output = <<>> /\ mult = Zero /\ rankings = <<>>
    /\ generator = NoGenerator /\ multQ = NoMultQ
    /\ collected1 = <<>> /\ collected2 = <<>> /\ rank1 = <<>> /\ rank2 = <<>>
    /\ ret = NoRet

\* the seed vectors offered: the two seed values are interchangeable (a
\* generator is an arbitrary function of its seed), so the first call's
\* vector starts with the smaller one
SeedVectors ==
    {s \in SeqsUpTo(Seeds, MaxIters) : s = <<>> \/ \A x \in Seeds : s[1] <= x}

\* the arguments the caller holds: any count, any seed vector
Args ==
    /\ iters \in -1..MaxIters
    /\ seeds \in SeedVectors

InitNull ==
    /\ fn = "get_null_rho" /\ cells \in 0..MaxN /\ qr = NoQR
    /\ Args /\ Locals0
    /\ stream = <<>> /\ prev = NoPrev /\ ncalls = 0

InitDesign ==
    /\ fn = "get_null_rho_design" /\ cells = 0 /\ qr \in Factorizations
    /\ Args /\ Locals0
    /\ stream = <<>> /\ prev = NoPrev /\ ncalls = 0

Init == InitNull \/ InitDesign

\* ------------------------------------------------------------ the caller
Reverse(s) == [i \in 1..Len(s) |-> s[Len(s) + 1 - i]]

\* the caller invokes the entry point with the arguments it holds
Call ==
    /\ pc = "idle" /\ ncalls = 0
    /\ pc' = "validate" /\ ncalls' = 1
    /\ UNCHANGED <<fn, cells, qr, iters, seeds, err, it, mode, output, mult,
                   rankings, generator, stream, multQ, collected1, collected2,
                   rank1, rank2, ret, prev>>

\* the seed vectors of a second call: the same, the same in another
\* order, or the same with the first seed removed
Variants(s) == {s, Reverse(s)} \cup (IF s = <<>> THEN {} ELSE {Tail(s)})

\* the caller invokes it a second time, with one of these vectors and the
\* count changed by as much as the vector's length
CallAgain ==
    /\ pc = "idle" /\ ncalls = 1
    /\ \E s \in Variants(seeds) :
          seeds' = s /\ iters' = iters + Len(s) - Len(seeds)
    /\ pc' = "validate" /\ ncalls' = 2
    /\ UNCHANGED <<fn, cells, qr, err, it, mode, output, mult,
                   rankings, generator, stream, multQ, collected1, collected2,
                   rank1, rank2, ret, prev>>

\* the call is over (returned or threw): its locals are destroyed and the
\* caller keeps the result
Finish ==
    /\ pc \in {"done", "error"}
    /\ prev' = [iters |-> iters, seeds |-> seeds, ret |-> ret]
    /\ pc' = "idle" /\ err' = "" /\ it' = 0 /\ mode' = 0
    /\ output' = <<>> /\ mult' = Zero
    /\ rankings' = <<>>
    /\ generator' = NoGenerator
    /\ multQ' = NoMultQ
    /\ collected1' = <<>> /\ collected2' = <<>>
    /\ rank1' = <<>> /\ rank2' = <<>>
    /\ ret' = NoRet
    /\ UNCHANGED <<fn, cells, qr, iters, seeds, stream, ncalls>>

\* throw std::runtime_error(msg), caught by END_RCPP: nothing is returned
Throw(msg) ==
    /\ pc' = "error" /\ err' = msg /\ ret' = NoRet
    /\ UNCHANGED <<it, mode, output, mult, rankings, generator, stream, multQ,
                   collected1, collected2, rank1, rank2>>

\* --------------------------------------------------------- get_null_rho
\* lines 15-24: the message thrown, "" when the arguments pass
\* (slip: the test the message words, Ncells <= 2)
null_check_gt2(Ncells, Niters, nseeds) ==
    IF Ncells <= 2 THEN "number of cells should be greater than 2"
    ELSE IF Niters < 0 THEN "number of iterations should be non-negative"
    ELSE IF nseeds # Niters THEN "number of iterations and seeds should be the same"
    ELSE ""

null_check(Ncells, Niters, nseeds) ==
    IF Ncells <= 1 THEN "number of cells should be greater than 2"
    ELSE IF Niters < 0 THEN "number of iterations should be non-negative"
    ELSE IF nseeds # Niters THEN "number of iterations and seeds should be the same"
    ELSE ""

\* lines 15-29
NullValidate ==
    /\ fn = "get_null_rho" /\ pc = "validate"
    /\ IF null_check(cells, iters, Len(seeds)) # ""
         THEN Throw(null_check(cells, iters, Len(seeds)))
       ELSE /\ rankings' = Zeros(cells)
            /\ output' = [i \in 1..iters |-> Zero]
            /\ mult' = rho_mult(cells)
            /\ it' = 0 /\ pc' = "loop"
            /\ UNCHANGED <<err, mode, generator, stream, multQ, collected1,
                           collected2, rank1, rank2, ret>>
    /\ UNCHANGED <<fn, cells, qr, iters, seeds, prev, ncalls>>

\* lines 31-44: one iteration of the loop
NullIterate ==
    /\ fn = "get_null_rho" /\ pc = "loop" /\ it < iters
    /\ LET g == mt19937(generator, seeds[it + 1])
       IN \E sigma \in Yields(g, Perms(cells)) :
            LET r == shuffle(iota(rankings), sigma)
            IN /\ rankings' = r
               /\ stream' = Record(g, sigma)
               /\ generator' = Advance(g)
               /\ output' = [output EXCEPT ![it + 1] = null_rho(r, mult)]
    /\ it' = it + 1
    /\ UNCHANGED <<fn, cells, qr, iters, seeds, pc, err, mode, mult, multQ,
                   collected1, collected2, rank1, rank2, ret, prev, ncalls>>

\* line 46
NullReturn ==
    /\ fn = "get_null_rho" /\ pc = "loop" /\ it >= iters
    /\ pc' = "done" /\ ret' = [ok |-> TRUE, value |-> output]
    /\ UNCHANGED <<fn, cells, qr, iters, seeds, err, it, mode, output, mult,
                   rankings, generator, stream, multQ, collected1, collected2,
                   rank1, rank2, prev, ncalls>>

\* -------------------------------------------------- get_null_rho_design
\* lines 54-60: the message thrown, "" when the arguments pass
\* (slip: the test of get_null_rho, Niters < 0, copied)
design_check_nonneg(Niters, nseeds) ==
    IF Niters < 0 THEN "number of iterations should be positive"
    ELSE IF nseeds # Niters THEN "number of iterations and seeds should be the same"
    ELSE ""

\* (slip: the seed count is not compared)
design_check_noseeds(Niters, nseeds) ==
    IF Niters <= 0 THEN "number of iterations should be positive" ELSE ""

design_check(Niters, nseeds) ==
    IF Niters <= 0 THEN "number of iterations should be positive"
    ELSE IF nseeds # Niters THEN "number of iterations and seeds should be the same"
    ELSE ""

\* lines 54-70
DesignValidate ==
    /\ fn = "get_null_rho_design" /\ pc = "validate"
    /\ IF design_check(iters, Len(seeds)) # ""
         THEN Throw(design_check(iters, Len(seeds)))
       ELSE /\ multQ' = run_dormqr(qr)
            /\ output' = [i \in 1..iters |-> Zero]
            /\ collected1' = [i \in 1..qr.nobs |-> Pair(0, 0)]
            /\ collected2' = [i \in 1..qr.nobs |-> Pair(0, 0)]
            /\ rank1' = Zeros(qr.nobs) /\ rank2' = Zeros(qr.nobs)
            /\ mult' = rho_mult(qr.nobs)
            /\ it' = 0 /\ mode' = 0 /\ pc' = "loop"
            /\ UNCHANGED <<err, rankings, generator, stream, ret>>
    /\ UNCHANGED <<fn, cells, qr, iters, seeds, prev, ncalls>>

\* lines 78-100: one realization (mode 0 seeds the generator first)
DesignMode ==
    /\ fn = "get_null_rho_design" /\ pc = "loop" /\ it < iters /\ mode < 2
    /\ LET Nobs  == multQ.nobs
           Ncoef == multQ.ncoef
           g     == IF mode = 0 THEN mt19937(generator, seeds[it + 1])
                    ELSE generator
       IN \E d \in YieldsSeq(g, Nobs - Ncoef, DrawVals) :
            LET rhs     == run(qr, fill(multQ.rhs, Ncoef, Nobs, d))
                current == sort(collect(rhs, Nobs))
            IN /\ multQ' = [multQ EXCEPT !.rhs = rhs]
               /\ stream' = RecordSeq(g, d, Nobs - Ncoef)
               /\ generator' = [g EXCEPT !.pos = @ + Nobs - Ncoef]
               /\ IF mode = 1
                    THEN /\ collected1' = current
                         /\ rank1' = rank_of(rank1, current)
                         /\ UNCHANGED <<collected2, rank2>>
                    ELSE /\ collected2' = current
                         /\ rank2' = rank_of(rank2, current)
                         /\ UNCHANGED <<collected1, rank1>>
    /\ mode' = mode + 1
    /\ UNCHANGED <<fn, cells, qr, iters, seeds, pc, err, it, output, mult,
                   rankings, ret, prev, ncalls>>

\* lines 103-110
DesignRho ==
    /\ fn = "get_null_rho_design" /\ pc = "loop" /\ it < iters /\ mode = 2
    /\ output' = [output EXCEPT ![it + 1] = design_rho(rank1, rank2, mult)]
    /\ it' = it + 1 /\ mode' = 0
    /\ UNCHANGED <<fn, cells, qr, iters, seeds, pc, err, mult, rankings,
                   generator, stream, multQ, collected1, collected2,
                   rank1, rank2, ret, prev, ncalls>>

\* line 113
DesignReturn ==
    /\ fn = "get_null_rho_design" /\ pc = "loop" /\ it >= iters
    /\ pc' = "done" /\ ret' = [ok |-> TRUE, value |-> output]
    /\ UNCHANGED <<fn, cells, qr, iters, seeds, err, it, mode, output, mult,
                   rankings, generator, stream, multQ, collected1, collected2,
                   rank1, rank2, prev, ncalls>>

\* ------------------------------------------------------- specification
Next == \/ Call \/ CallAgain \/ Finish
        \/ NullValidate \/ NullIterate \/ NullReturn
        \/ DesignValidate \/ DesignMode \/ DesignRho \/ DesignReturn

Spec == Init /\ [][Next]_vars

\* ------------------------------------------------------------- properties
IsNull   == fn = "get_null_rho"
IsDesign == fn = "get_null_rho_design"
Running  == pc \in {"loop", "done"}

\* the ranking 0, 1, ..., n-1 and its reversal
Identity(n) == [i \in 1..n |-> i - 1]
Reversed(n) == [i \in 1..n |-> n - i]

\* 1 - 6 S / (n (n^2 - 1)) as a fraction
Spearman(S, n) == Frac(n * (n * n - 1) - 6 * S, n * (n * n - 1))

\* C1: every value get_null_rho has emitted so far, and every value it
\* returns, lies in [-1, 1] (N > 1 is what validation lets through).
C1_NullRhoInUnit ==
    (IsNull /\ Running) =>
        /\ cells > 1
        /\ \A i \in 1..it : InUnit(output[i])
        /\ (pc = "done" => \A i \in 1..Len(ret.value) : InUnit(ret.value[i]))

\* a call on 4 cells has returned two values, the first the lower end -1
C1_Witness ==
    /\ IsNull /\ pc = "done" /\ cells = MaxN /\ Len(ret.value) = 2
    /\ IsMinusOne(ret.value[1]) /\ ~IsMinusOne(ret.value[2]) /\ ~IsOne(ret.value[2])

\* C2 as stated: with K = 0 and no seeds both samplers return an empty
\* sequence without error, whatever N or the factorization.
C2_Original ==
    (iters = 0 /\ seeds = <<>> /\ pc \in {"done", "error"}) =>
        pc = "done" /\ ret.ok /\ ret.value = <<>>

\* C2 amended: with K = 0 and no seeds, get_null_rho returns an empty
\* sequence without error exactly when N > 1 (it throws for N <= 1), and
\* get_null_rho_design throws "number of iterations should be positive"
\* for every factorization and returns nothing.
C2_ZeroIterations ==
    (iters = 0 /\ seeds = <<>> /\ pc \in {"done", "error"}) =>
        /\ (IsNull /\ cells > 1) => (pc = "done" /\ ret.ok /\ ret.value = <<>>)
        /\ (IsNull /\ cells <= 1) => (pc = "error" /\ ret = NoRet)
        /\ IsDesign => /\ pc = "error" /\ ret = NoRet
                       /\ err = "number of iterations should be positive"

\* get_null_rho_design was called with K = 0 on a factorization with
\* observations and has thrown
C2_Witness ==
    /\ IsDesign /\ iters = 0 /\ seeds = <<>> /\ pc = "error" /\ qr.nobs = MaxNobs

C4_DesignErrors ==
    IsDesign =>
        LET bad == iters <= 0 \/ Len(seeds) # iters
        IN /\ (bad /\ pc # "idle") => pc \in {"validate", "error"}
           /\ pc \in {"validate", "error"} =>
                 /\ ~multQ.built /\ multQ.rhs = <<>>
                 /\ generator = NoGenerator /\ it = 0 /\ output = <<>>
           /\ pc = "error" => bad /\ ret = NoRet /\ err # ""

\* a positive K with fewer seeds than K
C4_Witness ==
    /\ IsDesign /\ pc = "error" /\ iters = MaxIters /\ Len(seeds) = MaxIters - 1
    /\ qr.nobs > 1

\* C5: a second call with the arguments of the first ends as the first
\* did: same success or failure, same output sequence.
C5_Deterministic ==
    (ncalls = 2 /\ pc \in {"done", "error"}
       /\ seeds = prev.seeds /\ iters = prev.iters) =>
        ret = prev.ret

\* the second of two identical calls of get_null_rho_design has returned
\* two different values for two different seeds
C5_Witness ==
    /\ IsDesign /\ ncalls = 2 /\ pc = "done"
    /\ seeds = prev.seeds /\ iters = prev.iters
    /\ Len(ret.value) = 2 /\ seeds[1] # seeds[2] /\ ret.value[1] # ret.value[2]

\* C6: the value emitted by an iteration of get_null_rho is
\* 1 - 6 S/(N(N^2-1)) for S the squared distance of the shuffled ranking
\* from 0..N-1: exactly 1 when the shuffle left the identity, exactly -1
\* for the reversed ranking [3,2,1,0] of N = 4; and rho_mult(5) = 6/120.
C6_NullRhoValues ==
    /\ EqFrac(rho_mult(5), Frac(6, 120))
    /\ (IsNull /\ Running) => EqFrac(mult, Frac(6, cells * (cells * cells - 1)))
    /\ (IsNull /\ pc = "loop" /\ it >= 1) =>
          /\ EqFrac(output[it],
                    Spearman(SumSq([c \in 1..cells |-> rankings[c] - (c - 1)], cells), cells))
          /\ rankings = Identity(cells) => IsOne(output[it])
          /\ (cells = 4 /\ rankings = <<3, 2, 1, 0>>) => IsMinusOne(output[it])

\* one call on 4 cells has met the identity and then the reversed ranking
C6_Witness ==
    /\ IsNull /\ pc = "loop" /\ cells = 4 /\ it = 2
    /\ IsOne(output[1]) /\ rankings = <<3, 2, 1, 0>>

\* C7: a successful call returns exactly K values, and the value at
\* position i depends on seeds[i] alone: equal seeds give equal values at
\* any two positions of one call, and at any two positions of two calls
\* whose seed vectors differ in order or in length.
C7_PerSeed ==
    /\ Running =>
          /\ Len(output) = iters /\ Len(seeds) = iters
          /\ \A i, j \in 1..it : seeds[i] = seeds[j] => output[i] = output[j]
          /\ (ncalls = 2 /\ prev.ret.ok) =>
                \A i \in 1..it, j \in 1..Len(prev.seeds) :
                    seeds[i] = prev.seeds[j] => output[i] = prev.ret.value[j]
    /\ pc = "done" => ret.value = output /\ Len(ret.value) = iters

\* the second call of get_null_rho_design got the seeds of the first in
\* reverse order and returned the values of the first in reverse order
C7_Witness ==
    /\ IsDesign /\ ncalls = 2 /\ pc = "done" /\ seeds # prev.seeds
    /\ Len(ret.value) = 2 /\ ret.value[1] # ret.value[2]
    /\ ret.value = Reverse(prev.ret.value)

\* C8: with Nobs > 1 and Ncoef < Nobs every value get_null_rho_design has
\* emitted lies in [-1, 1], and the value emitted by an iteration is
\* 1 - 6 S/(Nobs(Nobs^2-1)) for S the squared distance of rank1 and rank2.
C8_DesignRhoInUnit ==
    (IsDesign /\ Running /\ qr.nobs > 1 /\ qr.ncoef < qr.nobs) =>
        /\ \A i \in 1..it : InUnit(output[i])
        /\ (pc = "loop" /\ mode = 0 /\ it >= 1) =>
              EqFrac(output[it],
                     Spearman(SumSq([r \in 1..qr.nobs |-> rank1[r] - rank2[r]], qr.nobs),
                              qr.nobs))

\* an iteration whose two realizations rank in opposite orders: rho = -1
C8_Witness ==
    /\ IsDesign /\ pc = "loop" /\ mode = 0 /\ it >= 1
    /\ qr.nobs = MaxNobs /\ qr.ncoef < qr.nobs
    /\ rank1 = Reversed(qr.nobs) /\ rank2 = Identity(qr.nobs)
    /\ IsMinusOne(output[it])

\* rank is a ranking of the values v: a permutation of 0..n-1 ordered by
\* value, equal values by index
RankOK(rank, v) ==
    /\ Len(rank) = Len(v)
    /\ {rank[i] : i \in 1..Len(rank)} = 0..(Len(v) - 1)
    /\ \A i, j \in 1..Len(v) :
          (v[i] < v[j] \/ (v[i] = v[j] /\ i < j)) => rank[i] < rank[j]

Range(s) == {s[i] : i \in 1..Len(s)}

\* the value of each item, read back from the sorted pairs
ValuesOf(c) == [i \in 1..Len(c) |->
                  (CHOOSE p \in Range(c) : p.second = i - 1).first]

\* C9: after mode 0 rank2 is the ranking of the transformed working
\* vector; after mode 1 rank1 is the ranking of the (new) transformed
\* working vector while rank2 still is the ranking of the mode 0 values
\* kept in collected2: the two modes write different vectors.
C9_Ranks ==
    (IsDesign /\ pc = "loop") =>
        /\ mode = 1 => /\ RankOK(rank2, multQ.rhs)
                       /\ ValuesOf(collected2) = multQ.rhs
        /\ mode = 2 => /\ RankOK(rank1, multQ.rhs)
                       /\ ValuesOf(collected1) = multQ.rhs
                       /\ RankOK(rank2, ValuesOf(collected2))

\* both realizations of a later iteration done: the first one had a tie
\* (broken by index), the second one ranks in descending order
C9_Witness ==
    /\ IsDesign /\ pc = "loop" /\ mode = 2 /\ it >= 1 /\ qr.nobs = MaxNobs
    /\ \E i, j \in 1..qr.nobs :
          i < j /\ ValuesOf(collected2)[i] = ValuesOf(collected2)[j]
                /\ rank2[i] < rank2[j]
    /\ rank1 = Reversed(qr.nobs)

\* C10: with Ncoef = Nobs > 1 no deviate is drawn, the working vector is
\* all zeros in both modes, both rank vectors are the identity ranking and
\* every emitted rho is exactly 1, for every seed.
C10_EmptyResidual ==
    (IsDesign /\ Running /\ qr.ncoef = qr.nobs /\ qr.nobs > 1) =>
        /\ stream = <<>> /\ generator.pos = 0
        /\ (pc = "done" \/ mode >= 1 \/ it >= 1) =>
              /\ multQ.rhs = Zeros(qr.nobs)
              /\ rank2 = Identity(qr.nobs)
        /\ (pc = "done" \/ mode = 2 \/ it >= 1) => rank1 = Identity(qr.nobs)
        /\ \A i \in 1..it : IsOne(output[i])
        /\ pc = "done" => \A i \in 1..Len(ret.value) : IsOne(ret.value[i])

\* a call with two different seeds on a factorization whose reflectors
\* are not all the identity has returned <<1, 1>>
C10_Witness ==
    /\ IsDesign /\ pc = "done" /\ qr.ncoef = qr.nobs /\ qr.nobs = MaxNobs
    /\ \E i \in 1..qr.ncoef : qr.refl[i].kind = "negswap"
    /\ Len(ret.value) = 2 /\ seeds[1] # seeds[2]
====
